---- MODULE Spec2Model ----
(***************************************************************************)
(* Workshop booking server: the booking-creation handler                   *)
(* (src/handlers.ts), the CRM access layer (src/ghl.ts) and the Stripe     *)
(* webhook reconciler (stripe-handlers, src/unnamed/part_003).             *)
(*                                                                         *)
(* Every request is an async handler; it can be suspended at each `await`  *)
(* on a CRM call or on the outbound notification, and other requests run   *)
(* in between.  A request in flight is a record whose pc names the call it *)
(* is awaiting; one action resumes the handler after that call and runs it *)
(* to its next await or to its return.                                     *)
(***************************************************************************)
EXTENDS Integers, Sequences, FiniteSets, TLC

----------------------------------------------------------------------------
(* Bounds of the exploration *)

\* requests and deliveries explored when they are handled one at a time
MaxTasks == 4

\* requests and deliveries explored when they interleave
MaxConcTasks == 3

\* booking requests explored when only booking requests run
MaxBookingTasks == 2

\* requests and deliveries explored, one at a time, with every kind of
\* request and every webhook event
MaxWideTasks == 3

\* one booking request and the deliveries of its completion event, explored
\* under redelivery
MaxLiveTasks == 4

\* one booking request and the deliveries of events for its booking,
\* explored with the deliveries interleaving
MaxHookTasks == 3

----------------------------------------------------------------------------
(* Inputs *)

StudentEmails == {"stu1@example.com", "stu2@example.com"}

ParentEmails == {"par1@example.com", "par2@example.com"}

\* `${firstName} ${lastName}` of the parent in the request body
ParentNames == {"Pat One", "Pat Two"}

\* a price a client may put in the body (the schema has no such key);
\* 0 stands for a body without it
ClientPrices == {0, 1}

Today == 20260201

Offering(yearGroup, subject, availability, workshopDate, price, stripePriceId) ==
  [ yearGroup |-> yearGroup, subject |-> subject,
    availability |-> availability, workshopDate |-> workshopDate,
    price |-> price, stripePriceId |-> stripePriceId ]

\* The offering collection of the CRM; read-only to this system.  o1 and o2
\* pass every check of the booking handler (o2 is dated today); the others
\* cover every combination of availability, date and payment reference.
Offerings ==
  [ o1 |-> Offering("gcse", "maths", "available", 20260301, 50, "price_1"),
    o2 |-> Offering("alevel", "physics", "available", 20260201, 80, "price_2"),
    oFull |-> Offering("gcse", "maths", "full", 20260301, 50, "price_3"),
    oPast |-> Offering("gcse", "maths", "available", 20260131, 50, "price_4"),
    oInactive |-> Offering("gcse", "maths", "inactive", 20260301, 50, "price_5"),
    oNoPrice |-> Offering("gcse", "maths", "available", 20260301, 50, ""),
    oFullPast |-> Offering("gcse", "maths", "full", 20260131, 50, "price_6"),
    oInactivePast |-> Offering("gcse", "maths", "inactive", 20260131, 50, "price_7"),
    oFullNoPrice |-> Offering("gcse", "maths", "full", 20260301, 50, ""),
    oInactiveNoPrice |-> Offering("gcse", "maths", "inactive", 20260301, 50, ""),
    oPastNoPrice |-> Offering("gcse", "maths", "available", 20260131, 50, ""),
    oFullPastNoPrice |-> Offering("gcse", "maths", "full", 20260131, 50, ""),
    oInactivePastNoPrice |-> Offering("gcse", "maths", "inactive", 20260131, 50, "") ]

\* offering ids a request body can carry: every offering, and an unknown id
OfferingIds == DOMAIN Offerings \cup {"oMissing"}

NoBookingId == 0

BookingIdBase == 1000

UnknownBookingId == 1999

NoBooking == [id |-> 0]

NoOffering == [id |-> "none"]

\* values of the stripe-signature header: absent, not made with the webhook
\* secret, made with it
Signatures == {"", "forged", "valid"}

NoEvent == [signature |-> "", type |-> "none", bookingId |-> 0]

\* session.metadata of an event, as far as the notification uses it
Metas ==
  [ offeringId : {"o1", "o2"},
    customerEmail : ParentEmails,
    studentEmail : StudentEmails ]

NoPayload ==
  [ bookingId |-> NoBookingId, paymentStatus |-> "", pricePaid |-> 0,
    offeringId |-> "", parentEmail |-> "", studentEmail |-> "" ]

\* values of the yearGroup query parameter: the two year groups, a value
\* that is neither, and "" for an absent parameter
QueryValues == {"gcse", "alevel", "ks3", ""}

NoQuery == "none"

----------------------------------------------------------------------------
(* The state *)

VARIABLES
  config,     \* configuration read at process start
  contacts,   \* CRM contact collection; a contact's id is its index
  bookings,   \* CRM booking collection (raw properties); record id = index
  reqs,       \* booking requests in flight: request number -> frame
  dels,       \* webhook deliveries in flight: delivery number -> frame
  nTasks,     \* requests and deliveries that reached the CRM so far
  hist,       \* per booking record: what has been done for it (history)
  resp,       \* the HTTP response sent by the step just taken, if any
  fetchedId,  \* the offering id the step just taken fetched, "" if none
  event,      \* the webhook request the step just taken received, if any
  query,      \* the yearGroup parameter of the listing request the step just
              \* taken received, NoQuery if it received none
  sent        \* the notification the step just taken posted to the downstream
              \* endpoint, NoPayload if it posted none

vars ==
  <<config, contacts, bookings, reqs, dels, nTasks, hist, resp, fetchedId,
    event, query, sent>>

----------------------------------------------------------------------------
(* src/ghl.ts: the CRM access layer *)

\* parseBookingFromRecord: raw CRM properties -> Booking
parseBookingFromRecord(record) ==
  [ id |-> record.id,
    bookingId |-> record.bookingId,
    parentContactId |-> record.parentContactId,
    studentContactId |-> record.studentContactId,
    workshopOfferingId |-> record.workshopOfferingId,
    paymentStatus |-> record.paymentStatus,
    pricePaid |-> record.pricePaid,
    webhookTriggered |-> (record.webhookTriggered = "true") ]

\* records[0] of a search answered with the matching indices: the first
\* match in collection order, 0 when records is empty
FirstRecord(matches) ==
  IF matches = {} THEN 0
  ELSE CHOOSE i \in matches : \A j \in matches : i <= j

findBookingByStudentAndOffering_wrongField(store, studentContactId, offeringId) ==
  LET i == FirstRecord({ k \in 1..Len(store) :
                           /\ store[k].parentContactId = studentContactId
                           /\ store[k].workshopOfferingId = offeringId })
  IN IF i = 0 THEN NoBooking ELSE parseBookingFromRecord(store[i])

\* search with pageLimit 1 on both fields; the first record returned wins
findBookingByStudentAndOffering(store, studentContactId, offeringId) ==
  LET i == FirstRecord({ k \in 1..Len(store) :
                           /\ store[k].studentContactId = studentContactId
                           /\ store[k].workshopOfferingId = offeringId })
  IN IF i = 0 THEN NoBooking ELSE parseBookingFromRecord(store[i])

findBookingByBookingId_anyRecord(store, bookingId) ==
  IF Len(store) = 0 THEN NoBooking ELSE parseBookingFromRecord(store[1])

\* search with pageLimit 1 on the booking_id field
findBookingByBookingId(store, bookingId) ==
  LET i == FirstRecord({ k \in 1..Len(store) :
                           store[k].bookingId = bookingId })
  IN IF i = 0 THEN NoBooking ELSE parseBookingFromRecord(store[i])

updateBooking_fullWrite(store, recordId, update) ==
  [store EXCEPT ![recordId] =
     [@ EXCEPT !.paymentStatus =
                 IF "paymentStatus" \in DOMAIN update
                 THEN update.paymentStatus ELSE "pending",
               !.webhookTriggered =
                 IF "webhookTriggered" \in DOMAIN update /\ update.webhookTriggered
                 THEN "true" ELSE "false"]]

updateBooking_replace(store, recordId, update) ==
  LET old == store[recordId]
      s1 == [old EXCEPT !.paymentStatus =
               IF "paymentStatus" \in DOMAIN update
               THEN update.paymentStatus ELSE @,
             !.pricePaid = 0]
      s2 == IF "webhookTriggered" \in DOMAIN update
            THEN [s1 EXCEPT !.webhookTriggered =
                    IF update.webhookTriggered THEN "true" ELSE "false"]
            ELSE s1
  IN [store EXCEPT ![recordId] = s2]

\* updateBooking: only paymentStatus and webhookTriggered reach the CRM,
\* each only when supplied; any other supplied key is dropped.
updateBooking(store, recordId, update) ==
  LET old == store[recordId]
      s1 == IF "paymentStatus" \in DOMAIN update
            THEN [old EXCEPT !.paymentStatus = update.paymentStatus]
            ELSE old
      s2 == IF "webhookTriggered" \in DOMAIN update
            THEN [s1 EXCEPT !.webhookTriggered =
                    IF update.webhookTriggered THEN "true" ELSE "false"]
            ELSE s1
  IN [store EXCEPT ![recordId] = s2]

generateBookingId(store) == BookingIdBase + Len(store) + 1

createBookingRecord_unique(store, input) ==
  IF \E i \in 1..Len(store) :
       /\ store[i].studentContactId = input.studentContactId
       /\ store[i].workshopOfferingId = input.workshopOfferingId
  THEN store
  ELSE Append(store,
         [ id |-> Len(store) + 1,
           bookingId |-> generateBookingId(store),
           parentContactId |-> input.parentContactId,
           studentContactId |-> input.studentContactId,
           workshopOfferingId |-> input.workshopOfferingId,
           paymentStatus |-> "pending",
           pricePaid |-> input.pricePaid,
           webhookTriggered |-> "",
           currency |-> "",
           paymentReference |-> "" ])

createBookingRecord_resetOthers(store, input) ==
  Append([ i \in 1..Len(store) |-> [ store[i] EXCEPT !.paymentStatus = "pending" ] ],
    [ id |-> Len(store) + 1,
      bookingId |-> generateBookingId(store),
      parentContactId |-> input.parentContactId,
      studentContactId |-> input.studentContactId,
      workshopOfferingId |-> input.workshopOfferingId,
      paymentStatus |-> "pending",
      pricePaid |-> input.pricePaid,
      webhookTriggered |-> "",
      currency |-> "",
      paymentReference |-> "" ])

createBookingRecord_noPrice(store, input) ==
  Append(store,
    [ id |-> Len(store) + 1,
      bookingId |-> generateBookingId(store),
      parentContactId |-> input.parentContactId,
      studentContactId |-> input.studentContactId,
      workshopOfferingId |-> input.workshopOfferingId,
      paymentStatus |-> "pending",
      pricePaid |-> 0,
      webhookTriggered |-> "",
      currency |-> "",
      paymentReference |-> "" ])

createBookingRecord_swapContacts(store, input) ==
  Append(store,
    [ id |-> Len(store) + 1,
      bookingId |-> generateBookingId(store),
      parentContactId |-> input.studentContactId,
      studentContactId |-> input.parentContactId,
      workshopOfferingId |-> input.workshopOfferingId,
      paymentStatus |-> "pending",
      pricePaid |-> input.pricePaid,
      webhookTriggered |-> "",
      currency |-> "",
      paymentReference |-> "" ])

\* createBookingRecord: the CRM assigns the record id; the webhook flag,
\* currency and payment reference are not among the properties sent.
createBookingRecord(store, input) ==
  Append(store,
    [ id |-> Len(store) + 1,
      bookingId |-> generateBookingId(store),
      parentContactId |-> input.parentContactId,
      studentContactId |-> input.studentContactId,
      workshopOfferingId |-> input.workshopOfferingId,
      paymentStatus |-> "pending",
      pricePaid |-> input.pricePaid,
      webhookTriggered |-> "",
      currency |-> "",
      paymentReference |-> "" ])

\* fetchOfferings: the records of the year group, less the inactive ones and
\* the ones dated before today
fetchOfferings(yearGroup) ==
  { id \in DOMAIN Offerings :
      /\ Offerings[id].yearGroup = yearGroup
      /\ Offerings[id].availability # "inactive"
      /\ Offerings[id].workshopDate >= Today }

\* getRecordById; null when the CRM answers 404
fetchOfferingById(offeringId) ==
  IF offeringId \in DOMAIN Offerings
  THEN [id |-> offeringId] @@ Offerings[offeringId]
  ELSE NoOffering

\* index of the contact with this email, 0 when there is none
ContactIndex(store, email) ==
  FirstRecord({ k \in 1..Len(store) : store[k].email = email })

\* ghl.contacts.upsertContact keyed by email: "creates if not exists, updates
\* if exists".  The name and the custom fields sent replace the stored ones,
\* the tags sent are merged; returns the store and the id of the contact.
upsertContact(store, input) ==
  LET i == ContactIndex(store, input.email)
  IN IF i = 0
     THEN [ store |-> Append(store, [ id |-> Len(store) + 1,
                                      email |-> input.email,
                                      name |-> input.name,
                                      tags |-> input.tags,
                                      customFields |-> input.customFields ]),
            id |-> Len(store) + 1 ]
     ELSE [ store |-> [store EXCEPT ![i] =
                         [ @ EXCEPT
                             !.name = input.name,
                             !.tags = @ \cup input.tags,
                             !.customFields =
                               [ k \in DOMAIN @ \cup DOMAIN input.customFields |->
                                   IF k \in DOMAIN input.customFields
                                   THEN input.customFields[k]
                                   ELSE @[k] ] ]],
            id |-> i ]

triggerBookingWebhook_swallow(urlConfigured, responseOk) == TRUE

BookingWebhookPayload_offeringFromRecord(booking, meta) ==
  [ bookingId |-> booking.bookingId,
    paymentStatus |-> "paid",
    pricePaid |-> booking.pricePaid,
    offeringId |-> booking.workshopOfferingId,
    parentEmail |-> meta.customerEmail,
    studentEmail |-> meta.studentEmail ]

\* the argument of triggerBookingWebhook in the completion case: the booking
\* part from the record read, offering, parent and student from the metadata
BookingWebhookPayload(booking, meta) ==
  [ bookingId |-> booking.bookingId,
    paymentStatus |-> "paid",
    pricePaid |-> booking.pricePaid,
    offeringId |-> meta.offeringId,
    parentEmail |-> meta.customerEmail,
    studentEmail |-> meta.studentEmail ]

triggerBookingWebhook_requireUrl(urlConfigured, responseOk) ==
  urlConfigured /\ responseOk

\* triggerBookingWebhook: TRUE when it returns, FALSE when it throws
triggerBookingWebhook(urlConfigured, responseOk) ==
  IF ~urlConfigured THEN TRUE
  ELSE responseOk

----------------------------------------------------------------------------
(* Responses and history *)

NoResp ==
  [ kind |-> "none", status |-> 0, code |-> "",
    bookingId |-> 0, recordId |-> 0,
    parentContactId |-> 0, studentContactId |-> 0, offerings |-> {} ]

Resp(kind, status, code) ==
  [ kind |-> kind, status |-> status, code |-> code,
    bookingId |-> NoBookingId, recordId |-> 0,
    parentContactId |-> 0, studentContactId |-> 0, offerings |-> {} ]

BookingResp(bookingId, recordId, parentContactId, studentContactId) ==
  [ kind |-> "booking", status |-> 200, code |-> "OK",
    bookingId |-> bookingId, recordId |-> recordId,
    parentContactId |-> parentContactId,
    studentContactId |-> studentContactId, offerings |-> {} ]

\* the success response of the listing: the ids of the offerings returned
OfferingsResp(offerings) ==
  [Resp("offerings", 200, "OK") EXCEPT !.offerings = offerings]

NoHist ==
  [ ok |-> 0,         \* notifications the downstream endpoint accepted
    fail |-> 0,       \* notifications that failed
    noop |-> 0,       \* dispatches skipped because no endpoint is configured
    flagW |-> 0,      \* successful writes of the webhook-processed flag
    paidW |-> 0,      \* successful writes of paymentStatus 'paid'
    crmFail |-> 0,    \* updateBooking calls that threw
    completed |-> 0,  \* completion deliveries answered with success
    expSkipped |-> 0, \* expiry deliveries that found it no longer pending
    issued |-> 0,     \* checkout handoffs returned for the booking
    rejected |-> 0 ]  \* DUPLICATE_BOOKING responses caused by the booking

Bump(h, i, field) == [h EXCEPT ![i][field] = @ + 1]

InFlight == Cardinality(DOMAIN reqs) + Cardinality(DOMAIN dels)

Drop(f, k) == [x \in DOMAIN f \ {k} |-> f[x]]

----------------------------------------------------------------------------
(* src/handlers.ts: handleCreateBooking *)

offeringCheck_dateFirst(offering) ==
  IF offering.id = "none"
  THEN Resp("booking", 404, "OFFERING_NOT_FOUND")
  ELSE IF offering.workshopDate < Today
  THEN Resp("booking", 400, "OFFERING_PAST")
  ELSE IF offering.availability = "inactive"
  THEN Resp("booking", 400, "OFFERING_UNAVAILABLE")
  ELSE IF offering.availability = "full"
  THEN Resp("booking", 400, "OFFERING_UNAVAILABLE")
  ELSE IF offering.stripePriceId = ""
  THEN Resp("booking", 500, "OFFERING_NO_PRODUCT")
  ELSE Resp("booking", 200, "OK")

offeringCheck_dateLast(offering) ==
  IF offering.id = "none"
  THEN Resp("booking", 404, "OFFERING_NOT_FOUND")
  ELSE IF offering.availability = "inactive"
  THEN Resp("booking", 400, "OFFERING_UNAVAILABLE")
  ELSE IF offering.availability = "full"
  THEN Resp("booking", 400, "OFFERING_UNAVAILABLE")
  ELSE IF offering.stripePriceId = ""
  THEN Resp("booking", 500, "OFFERING_NO_PRODUCT")
  ELSE IF offering.workshopDate < Today
  THEN Resp("booking", 400, "OFFERING_PAST")
  ELSE Resp("booking", 200, "OK")

\* step 2, VALIDATE OFFERING: the response of the first failing check
offeringCheck(offering) ==
  IF offering.id = "none"
  THEN Resp("booking", 404, "OFFERING_NOT_FOUND")
  ELSE IF offering.availability = "inactive"
  THEN Resp("booking", 400, "OFFERING_UNAVAILABLE")
  ELSE IF offering.availability = "full"
  THEN Resp("booking", 400, "OFFERING_UNAVAILABLE")
  ELSE IF offering.workshopDate < Today
  THEN Resp("booking", 400, "OFFERING_PAST")
  ELSE IF offering.stripePriceId = ""
  THEN Resp("booking", 500, "OFFERING_NO_PRODUCT")
  ELSE Resp("booking", 200, "OK")

workshopTag(offering) ==
  <<"workshop", offering.yearGroup, offering.subject, offering.workshopDate>>

duplicateDecision_alwaysReject(existing) ==
  IF existing.id = 0 THEN "create" ELSE "reject"

duplicateDecision_onlyPendingBlocks(existing) ==
  IF existing.id = 0 THEN "create"
  ELSE IF existing.paymentStatus = "pending" THEN "reuse"
  ELSE "create"

\* step 6, CHECK DUPLICATE BOOKING: what the handler does with the search result
duplicateDecision(existing) ==
  IF existing.id = 0 THEN "create"
  ELSE IF existing.paymentStatus = "pending" THEN "reuse"
  ELSE "reject"

CreateError == Resp("booking", 500, "CREATE_ERROR")

handleCreateBookingCatch_fetchErrorForReads(pc) ==
  IF pc \in {"fetchOffering", "findDuplicate"}
  THEN Resp("booking", 500, "FETCH_ERROR")
  ELSE CreateError

\* the catch of handleCreateBooking, entered from the await named by pc
handleCreateBookingCatch(pc) == CreateError

\* offeringsQuerySchema.safeParse
offeringsQuerySchema(yearGroup) == yearGroup \in {"gcse", "alevel"}

\* GET /offerings with a yearGroup the schema rejects
GetOfferingsInvalid(serial, yearGroup) ==
  /\ serial => InFlight = 0
  /\ ~offeringsQuerySchema(yearGroup)
  /\ resp' = Resp("offerings", 400, "VALIDATION_ERROR")
  /\ query' = yearGroup
  /\ sent' = NoPayload
  /\ event' = NoEvent
  /\ fetchedId' = ""
  /\ UNCHANGED <<config, contacts, bookings, reqs, dels, nTasks, hist>>

\* GET /offerings whose search throws
GetOfferingsError(serial, yearGroup) ==
  /\ serial => InFlight = 0
  /\ offeringsQuerySchema(yearGroup)
  /\ resp' = Resp("offerings", 500, "FETCH_ERROR")
  /\ query' = yearGroup
  /\ sent' = NoPayload
  /\ event' = NoEvent
  /\ fetchedId' = ""
  /\ UNCHANGED <<config, contacts, bookings, reqs, dels, nTasks, hist>>

\* GET /offerings.  The offering collection is read-only and the handler
\* touches nothing else, so the search is taken together with the response.
GetOfferings(serial, yearGroup) ==
  /\ serial => InFlight = 0
  /\ offeringsQuerySchema(yearGroup)
  /\ resp' = OfferingsResp(fetchOfferings(yearGroup))
  /\ query' = yearGroup
  /\ sent' = NoPayload
  /\ event' = NoEvent
  /\ fetchedId' = ""
  /\ UNCHANGED <<config, contacts, bookings, reqs, dels, nTasks, hist>>

\* request bodies that carry every required key.  A body may carry keys the
\* schema does not name; `price` is the one modelled.
Bodies ==
  [ offeringId : OfferingIds, parentEmail : ParentEmails,
    parentName : ParentNames, studentEmail : StudentEmails,
    price : ClientPrices ]

\* bookingRequestSchema.safeParse: a z.object keeps the keys it names
\* (offeringId, parent, student) and strips every other key of the body
bookingRequestSchema(body) ==
  [ offeringId |-> body.offeringId,
    parentEmail |-> body.parentEmail,
    parentName |-> body.parentName,
    studentEmail |-> body.studentEmail ]

\* a body that fails bookingRequestSchema
BookingInvalid(serial) ==
  /\ serial => InFlight = 0
  /\ resp' = Resp("booking", 400, "VALIDATION_ERROR")
  /\ UNCHANGED <<config, contacts, bookings, reqs, dels, nTasks, hist>>
  /\ event' = NoEvent
  /\ fetchedId' = ""
  /\ query' = NoQuery
  /\ sent' = NoPayload

BookingRejectOffering_afterUpsert(serial, body) ==
  /\ serial => InFlight = 0
  /\ LET data == bookingRequestSchema(body)
         offering == fetchOfferingById(data.offeringId)
     IN /\ offeringCheck(offering).status # 200
        /\ contacts' = upsertContact(contacts,
                         [ email |-> data.parentEmail,
                           name |-> data.parentName,
                           tags |-> {<<"parent">>},
                           customFields |-> [contactType |-> "parent"] ]).store
        /\ resp' = offeringCheck(offering)
        /\ fetchedId' = data.offeringId
        /\ query' = NoQuery
        /\ sent' = NoPayload
  /\ UNCHANGED <<config, bookings, reqs, dels, nTasks, hist>>
  /\ event' = NoEvent

\* a valid body whose offering fails a check of step 2.  The offering
\* collection is read-only, so the fetch is taken together with the checks.
BookingRejectOffering(serial, body) ==
  /\ serial => InFlight = 0
  /\ LET data == bookingRequestSchema(body)
         offering == fetchOfferingById(data.offeringId)
     IN /\ offeringCheck(offering).status # 200
        /\ resp' = offeringCheck(offering)
        /\ fetchedId' = data.offeringId
        /\ query' = NoQuery
        /\ sent' = NoPayload
  /\ UNCHANGED <<config, contacts, bookings, reqs, dels, nTasks, hist>>
  /\ event' = NoEvent

\* a valid body whose fetchOfferingById throws (any CRM error but 404): no
\* offering is fetched
BookingFetchOfferingError(serial) ==
  /\ serial => InFlight = 0
  /\ fetchedId' = ""
  /\ resp' = handleCreateBookingCatch("fetchOffering")
  /\ query' = NoQuery
  /\ sent' = NoPayload
  /\ event' = NoEvent
  /\ UNCHANGED <<config, contacts, bookings, reqs, dels, nTasks, hist>>

\* a valid body and an eligible offering: the handler runs to
\* `await getOrCreateParentContact`
BookingStart(serial, n, body) ==
  /\ nTasks < n
  /\ serial => InFlight = 0
  /\ LET data == bookingRequestSchema(body)
         offering == fetchOfferingById(data.offeringId)
     IN /\ offeringCheck(offering).status = 200
        /\ reqs' = (nTasks + 1 :> [ pc |-> "upsertParent",
                                  offeringId |-> data.offeringId,
                                  parentEmail |-> data.parentEmail,
                                  parentName |-> data.parentName,
                                  studentEmail |-> data.studentEmail,
                                  offering |-> offering,
                                  parentContactId |-> 0,
                                  studentContactId |-> 0 ]) @@ reqs
        /\ fetchedId' = data.offeringId
        /\ query' = NoQuery
        /\ sent' = NoPayload
  /\ nTasks' = nTasks + 1
  /\ resp' = NoResp
  /\ UNCHANGED <<config, contacts, bookings, dels, hist>>
  /\ event' = NoEvent

BookingCrmError_swallow(r) ==
  /\ r \in DOMAIN reqs
  /\ IF reqs[r].pc = "createBooking"
     THEN reqs' = Drop(reqs, r) /\ resp' = CreateError
     ELSE /\ reqs' = [reqs EXCEPT ![r].pc =
                       CASE @ = "upsertParent" -> "upsertStudent"
                         [] @ = "upsertStudent" -> "findDuplicate"
                         [] OTHER -> "createBooking"]
          /\ resp' = NoResp
  /\ UNCHANGED <<config, contacts, bookings, dels, nTasks, hist>>
  /\ event' = NoEvent
  /\ fetchedId' = ""
  /\ query' = NoQuery
  /\ sent' = NoPayload

\* any awaited CRM call of the handler throws: the catch answers CREATE_ERROR
BookingCrmError(r) ==
  /\ r \in DOMAIN reqs
  /\ reqs' = Drop(reqs, r)
  /\ resp' = handleCreateBookingCatch(reqs[r].pc)
  /\ UNCHANGED <<config, contacts, bookings, dels, nTasks, hist>>
  /\ event' = NoEvent
  /\ fetchedId' = ""
  /\ query' = NoQuery
  /\ sent' = NoPayload

\* getOrCreateParentContact returns: up to `await getOrCreateStudentContact`
BookingUpsertParent(r) ==
  /\ r \in DOMAIN reqs
  /\ reqs[r].pc = "upsertParent"
  /\ LET res == upsertContact(contacts,
                  [ email |-> reqs[r].parentEmail,
                    name |-> reqs[r].parentName,
                    tags |-> {<<"parent">>, workshopTag(reqs[r].offering)},
                    customFields |-> [contactType |-> "parent"] ])
     IN /\ contacts' = res.store
        /\ reqs' = [reqs EXCEPT ![r].pc = "upsertStudent",
                                ![r].parentContactId = res.id]
  /\ resp' = NoResp
  /\ UNCHANGED <<config, bookings, dels, nTasks, hist>>
  /\ event' = NoEvent
  /\ fetchedId' = ""
  /\ query' = NoQuery
  /\ sent' = NoPayload

BookingUpsertStudent_noParent(r) ==
  /\ r \in DOMAIN reqs
  /\ reqs[r].pc = "upsertStudent"
  /\ LET res == upsertContact(contacts,
                  [ email |-> reqs[r].studentEmail,
                    name |-> "Student",
                    tags |-> {<<"student">>, workshopTag(reqs[r].offering)},
                    customFields |->
                      [ contactType |-> "student",
                        parentContactId |-> 0,
                        yearGroup |-> reqs[r].offering.yearGroup ] ])
     IN /\ contacts' = res.store
        /\ reqs' = [reqs EXCEPT ![r].pc = "findDuplicate",
                                ![r].studentContactId = res.id]
  /\ resp' = NoResp
  /\ UNCHANGED <<config, bookings, dels, nTasks, hist>>
  /\ event' = NoEvent
  /\ fetchedId' = ""
  /\ query' = NoQuery
  /\ sent' = NoPayload

\* getOrCreateStudentContact returns: up to
\* `await findBookingByStudentAndOffering`
BookingUpsertStudent(r) ==
  /\ r \in DOMAIN reqs
  /\ reqs[r].pc = "upsertStudent"
  /\ LET res == upsertContact(contacts,
                  [ email |-> reqs[r].studentEmail,
                    name |-> "Student",
                    tags |-> {<<"student">>, workshopTag(reqs[r].offering)},
                    customFields |->
                      [ contactType |-> "student",
                        parentContactId |-> reqs[r].parentContactId,
                        yearGroup |-> reqs[r].offering.yearGroup ] ])
     IN /\ contacts' = res.store
        /\ reqs' = [reqs EXCEPT ![r].pc = "findDuplicate",
                                ![r].studentContactId = res.id]
  /\ resp' = NoResp
  /\ UNCHANGED <<config, bookings, dels, nTasks, hist>>
  /\ event' = NoEvent
  /\ fetchedId' = ""
  /\ query' = NoQuery
  /\ sent' = NoPayload

BookingFindDuplicate(r) ==
  /\ r \in DOMAIN reqs
  /\ reqs[r].pc = "findDuplicate"
  /\ LET existing == findBookingByStudentAndOffering(bookings,
                       reqs[r].studentContactId, reqs[r].offeringId)
         decision == duplicateDecision(existing)
     IN CASE decision = "create" ->
               /\ reqs' = [reqs EXCEPT ![r].pc = "createBooking"]
               /\ resp' = NoResp
               /\ UNCHANGED hist
          [] decision = "reuse" ->
               /\ reqs' = Drop(reqs, r)
               /\ hist' = Bump(hist, existing.id, "issued")
               /\ resp' = BookingResp(existing.bookingId, existing.id,
                                reqs[r].parentContactId, reqs[r].studentContactId)
          [] decision = "reject" ->
               /\ reqs' = Drop(reqs, r)
               /\ hist' = Bump(hist, existing.id, "rejected")
               /\ resp' = Resp("booking", 400, "DUPLICATE_BOOKING")
  /\ UNCHANGED <<config, contacts, bookings, dels, nTasks>>
  /\ event' = NoEvent
  /\ fetchedId' = ""
  /\ query' = NoQuery
  /\ sent' = NoPayload

BookingCreate(r) ==
  /\ r \in DOMAIN reqs
  /\ reqs[r].pc = "createBooking"
  /\ LET offering == reqs[r].offering
         store == createBookingRecord(bookings,
                    [ parentContactId |-> reqs[r].parentContactId,
                      studentContactId |-> reqs[r].studentContactId,
                      workshopOfferingId |-> reqs[r].offeringId,
                      pricePaid |-> offering.price ])
         new == store[Len(store)]
     IN /\ bookings' = store
        /\ hist' = IF Len(store) > Len(hist)
                   THEN Append(hist, [NoHist EXCEPT !.issued = 1])
                   ELSE Bump(hist, Len(store), "issued")
        /\ resp' = BookingResp(new.bookingId, new.id,
                         reqs[r].parentContactId, reqs[r].studentContactId)
  /\ reqs' = Drop(reqs, r)
  /\ UNCHANGED <<config, contacts, dels, nTasks>>
  /\ event' = NoEvent
  /\ fetchedId' = ""
  /\ query' = NoQuery
  /\ sent' = NoPayload

----------------------------------------------------------------------------
(* stripe-handlers: handleStripeWebhook *)

WebhookOk == Resp("webhook", 200, "OK")

WebhookFailed == Resp("webhook", 500, "WEBHOOK_PROCESSING_FAILED")

fullyProcessed_never(booking) == FALSE

fullyProcessed_paidOnly(booking) == booking.paymentStatus = "paid"

\* "Fully processed - nothing to do"
fullyProcessed(booking) ==
  booking.paymentStatus = "paid" /\ booking.webhookTriggered

needsPaidWrite_always(booking) == TRUE

\* "Mark as paid if not already"
needsPaidWrite(booking) == booking.paymentStatus # "paid"

needsExpiredWrite_notExpired(booking) == booking.paymentStatus # "expired"

\* expiry case: only a booking read as pending is written
needsExpiredWrite(booking) == booking.paymentStatus = "pending"

verifySignature_acceptAll(signature) == "ok"

\* the header test and stripe.webhooks.constructEventAsync
verifySignature(signature) ==
  IF signature = "" THEN "missing"
  ELSE IF signature = "valid" THEN "ok"
  ELSE "invalid"

handledType_all(type) == TRUE

\* the cases of the switch on event.type
handledType(type) ==
  type \in {"checkout.session.completed", "checkout.session.expired"}

\* no stripe-signature header: answered before anything is awaited
WebhookNoSignature(serial, signature, type, bookingId) ==
  /\ serial => InFlight = 0
  /\ verifySignature(signature) = "missing"
  /\ resp' = Resp("webhook", 400, "WEBHOOK_SIGNATURE_MISSING")
  /\ event' = [signature |-> signature, type |-> type, bookingId |-> bookingId]
  /\ fetchedId' = ""
  /\ query' = NoQuery
  /\ sent' = NoPayload
  /\ UNCHANGED <<config, contacts, bookings, reqs, dels, nTasks, hist>>

\* constructEventAsync rejects the signature
WebhookBadSignature(serial, signature, type, bookingId) ==
  /\ serial => InFlight = 0
  /\ verifySignature(signature) = "invalid"
  /\ resp' = Resp("webhook", 400, "WEBHOOK_SIGNATURE_INVALID")
  /\ event' = [signature |-> signature, type |-> type, bookingId |-> bookingId]
  /\ fetchedId' = ""
  /\ query' = NoQuery
  /\ sent' = NoPayload
  /\ UNCHANGED <<config, contacts, bookings, reqs, dels, nTasks, hist>>

\* a verified event the switch does not go to the CRM for: an unhandled
\* type, or a completion/expiry event without bookingId in its metadata
WebhookIgnored(serial, signature, type, bookingId) ==
  /\ serial => InFlight = 0
  /\ verifySignature(signature) = "ok"
  /\ \/ ~handledType(type)
     \/ bookingId = NoBookingId
  /\ resp' = WebhookOk
  /\ event' = [signature |-> signature, type |-> type, bookingId |-> bookingId]
  /\ fetchedId' = ""
  /\ query' = NoQuery
  /\ sent' = NoPayload
  /\ UNCHANGED <<config, contacts, bookings, reqs, dels, nTasks, hist>>

\* a verified completion/expiry event with a bookingId: the handler runs
\* to `await findBookingByBookingId`
WebhookStart(serial, n, signature, type, bookingId, meta) ==
  /\ nTasks < n
  /\ serial => InFlight = 0
  /\ verifySignature(signature) = "ok"
  /\ handledType(type)
  /\ bookingId # NoBookingId
  /\ nTasks' = nTasks + 1
  /\ dels' = (nTasks + 1 :> [ pc |-> "findBooking",
                            signature |-> signature,
                            type |-> type,
                            bookingId |-> bookingId,
                            meta |-> meta,
                            booking |-> parseBookingFromRecord(
                              [ id |-> 0, bookingId |-> NoBookingId,
                                parentContactId |-> 0, studentContactId |-> 0,
                                workshopOfferingId |-> "", paymentStatus |-> "",
                                pricePaid |-> 0, webhookTriggered |-> "" ]),
                            notified |-> FALSE ]) @@ dels
  /\ resp' = NoResp
  /\ event' = [signature |-> signature, type |-> type, bookingId |-> bookingId]
  /\ fetchedId' = ""
  /\ query' = NoQuery
  /\ sent' = NoPayload
  /\ UNCHANGED <<config, contacts, bookings, reqs, hist>>

\* findBookingByBookingId throws
WebhookFindError(d) ==
  /\ d \in DOMAIN dels
  /\ dels[d].pc = "findBooking"
  /\ dels' = Drop(dels, d)
  /\ resp' = WebhookFailed
  /\ UNCHANGED <<config, contacts, bookings, reqs, nTasks, hist>>
  /\ event' = NoEvent
  /\ fetchedId' = ""
  /\ query' = NoQuery
  /\ sent' = NoPayload

\* findBookingByBookingId returns: up to the next await, or the break
WebhookFind(d) ==
  /\ d \in DOMAIN dels
  /\ dels[d].pc = "findBooking"
  /\ LET booking == findBookingByBookingId(bookings, dels[d].bookingId)
         Finish == /\ dels' = Drop(dels, d)
                   /\ resp' = WebhookOk
         Goto(pc) == /\ dels' = [dels EXCEPT ![d].pc = pc,
                                             ![d].booking = booking]
                     /\ resp' = NoResp
                     /\ UNCHANGED hist
     IN IF booking.id = 0
        THEN Finish /\ UNCHANGED hist
        ELSE IF dels[d].type = "checkout.session.completed"
        THEN IF fullyProcessed(booking)
             THEN Finish /\ hist' = Bump(hist, booking.id, "completed")
             ELSE IF needsPaidWrite(booking)
             THEN Goto("updatePaid")
             ELSE Goto("trigger")
        ELSE IF needsExpiredWrite(booking)
             THEN Goto("updateExpired")
             ELSE Finish /\ hist' = Bump(hist, booking.id, "expSkipped")
  /\ UNCHANGED <<config, contacts, bookings, reqs, nTasks>>
  /\ event' = NoEvent
  /\ fetchedId' = ""
  /\ query' = NoQuery
  /\ sent' = NoPayload

WebhookUpdateError_goOn(d) ==
  /\ d \in DOMAIN dels
  /\ dels[d].pc \in {"updatePaid", "updateFlag", "updateExpired"}
  /\ IF dels[d].pc = "updatePaid"
     THEN dels' = [dels EXCEPT ![d].pc = "trigger"] /\ resp' = NoResp
     ELSE dels' = Drop(dels, d) /\ resp' = WebhookFailed
  /\ hist' = Bump(hist, dels[d].booking.id, "crmFail")
  /\ UNCHANGED <<config, contacts, bookings, reqs, nTasks>>
  /\ event' = NoEvent
  /\ fetchedId' = ""
  /\ query' = NoQuery
  /\ sent' = NoPayload

\* an awaited updateBooking throws: the catch answers 500
WebhookUpdateError(d) ==
  /\ d \in DOMAIN dels
  /\ dels[d].pc \in {"updatePaid", "updateFlag", "updateExpired"}
  /\ dels' = Drop(dels, d)
  /\ hist' = Bump(hist, dels[d].booking.id, "crmFail")
  /\ resp' = WebhookFailed
  /\ UNCHANGED <<config, contacts, bookings, reqs, nTasks>>
  /\ event' = NoEvent
  /\ fetchedId' = ""
  /\ query' = NoQuery
  /\ sent' = NoPayload

WebhookUpdatePaid(d) ==
  /\ d \in DOMAIN dels
  /\ dels[d].pc = "updatePaid"
  /\ bookings' = updateBooking(bookings, dels[d].booking.id,
                   [ paymentStatus |-> "paid",
                     currency |-> "gbp",
                     paymentReference |-> "pi_1" ])
  /\ hist' = Bump(hist, dels[d].booking.id, "paidW")
  /\ dels' = [dels EXCEPT ![d].pc = "trigger"]
  /\ resp' = NoResp
  /\ UNCHANGED <<config, contacts, reqs, nTasks>>
  /\ event' = NoEvent
  /\ fetchedId' = ""
  /\ query' = NoQuery
  /\ sent' = NoPayload

\* triggerBookingWebhook settles; responseOk is the endpoint's answer
WebhookTrigger(d, responseOk) ==
  /\ d \in DOMAIN dels
  /\ dels[d].pc = "trigger"
  /\ config.bookingWebhookUrl \/ responseOk
  /\ hist' = Bump(hist, dels[d].booking.id,
               IF ~config.bookingWebhookUrl THEN "noop"
               ELSE IF responseOk THEN "ok" ELSE "fail")
  /\ IF triggerBookingWebhook(config.bookingWebhookUrl, responseOk)
     THEN /\ dels' = [dels EXCEPT ![d].pc = "updateFlag",
                                  ![d].notified =
                                     ~config.bookingWebhookUrl \/ responseOk]
          /\ resp' = NoResp
     ELSE /\ dels' = Drop(dels, d)
          /\ resp' = WebhookFailed
  /\ UNCHANGED <<config, contacts, bookings, reqs, nTasks>>
  /\ event' = NoEvent
  /\ fetchedId' = ""
  /\ query' = NoQuery
  /\ sent' = IF config.bookingWebhookUrl
             THEN BookingWebhookPayload(dels[d].booking, dels[d].meta)
             ELSE NoPayload

WebhookUpdateFlag(d) ==
  /\ d \in DOMAIN dels
  /\ dels[d].pc = "updateFlag"
  /\ bookings' = updateBooking(bookings, dels[d].booking.id,
                   [webhookTriggered |-> TRUE])
  /\ hist' = Bump(Bump(hist, dels[d].booking.id, "flagW"),
                  dels[d].booking.id, "completed")
  /\ dels' = Drop(dels, d)
  /\ resp' = WebhookOk
  /\ UNCHANGED <<config, contacts, reqs, nTasks>>
  /\ event' = NoEvent
  /\ fetchedId' = ""
  /\ query' = NoQuery
  /\ sent' = NoPayload

WebhookUpdateExpired(d) ==
  /\ d \in DOMAIN dels
  /\ dels[d].pc = "updateExpired"
  /\ bookings' = updateBooking(bookings, dels[d].booking.id,
                   [paymentStatus |-> "expired"])
  /\ dels' = Drop(dels, d)
  /\ resp' = WebhookOk
  /\ UNCHANGED <<config, contacts, reqs, nTasks, hist>>
  /\ event' = NoEvent
  /\ fetchedId' = ""
  /\ query' = NoQuery
  /\ sent' = NoPayload

----------------------------------------------------------------------------
(* The specifications *)

EventTypes ==
  {"checkout.session.completed", "checkout.session.expired", "charge.refunded"}

\* booking ids an event's metadata can carry
MetaBookingIds ==
  {NoBookingId, UnknownBookingId} \cup {bookings[i].bookingId : i \in 1..Len(bookings)}

Init ==
  /\ config \in [bookingWebhookUrl : BOOLEAN]
  /\ contacts = <<>>
  /\ bookings = <<>>
  /\ reqs = <<>>
  /\ dels = <<>>
  /\ nTasks = 0
  /\ hist = <<>>
  /\ resp = NoResp
  /\ fetchedId = ""
  /\ event = NoEvent
  /\ query = NoQuery
  /\ sent = NoPayload

\* The bodies explored together with webhook deliveries: one eligible
\* offering, one parent, no key the schema does not name.
PlainBodies ==
  { body \in Bodies : /\ body.offeringId # "o2"
                      /\ body.parentEmail = "par1@example.com"
                      /\ body.parentName = "Pat One"
                      /\ body.price = 0 }

\* A request rejected at the offering check has had only its offeringId
\* read, so one body per offering id stands for all of them.
RejectBodies ==
  { body \in PlainBodies : body.studentEmail = "stu1@example.com" }

\* webhook requests as received: any signature header, type and booking id
Events ==
  [signature : Signatures, type : EventTypes, bookingId : MetaBookingIds]

\* One event per outcome of the checks made before the CRM is called: an
\* unsigned and a forged one, and signed ones of each type without booking
\* id.
PlainEvents ==
  { e \in Events : /\ e.bookingId = NoBookingId
                   /\ e.signature # "valid" => e.type = "charge.refunded" }

\* booking and webhook requests answered before any CRM call is made
Rejects(serial, events) ==
  \/ BookingInvalid(serial)
  \/ \E body \in RejectBodies : BookingRejectOffering(serial, body)
  \/ \E e \in events :
       WebhookNoSignature(serial, e.signature, e.type, e.bookingId)
  \/ \E e \in events :
       WebhookBadSignature(serial, e.signature, e.type, e.bookingId)
  \/ \E e \in events :
       WebhookIgnored(serial, e.signature, e.type, e.bookingId)

\* requests answered after a single read of the CRM
Reads(serial) ==
  \/ \E yearGroup \in QueryValues : GetOfferingsInvalid(serial, yearGroup)
  \/ \E yearGroup \in QueryValues : GetOfferingsError(serial, yearGroup)
  \/ \E yearGroup \in QueryValues : GetOfferings(serial, yearGroup)
  \/ BookingFetchOfferingError(serial)

\* booking requests that go to the CRM: at most n tasks are explored
BookingTasks(serial, n, bodies) ==
  \/ \E body \in bodies : BookingStart(serial, n, body)
  \/ \E r \in DOMAIN reqs : BookingCrmError(r)
  \/ \E r \in DOMAIN reqs : BookingUpsertParent(r)
  \/ \E r \in DOMAIN reqs : BookingUpsertStudent(r)
  \/ \E r \in DOMAIN reqs : BookingFindDuplicate(r)
  \/ \E r \in DOMAIN reqs : BookingCreate(r)

\* webhook deliveries that go to the CRM: at most n tasks are explored
WebhookTasks(serial, n, metas) ==
  \/ \E sig \in Signatures, t \in EventTypes, b \in MetaBookingIds,
        meta \in metas :
       WebhookStart(serial, n, sig, t, b, meta)
  \/ \E d \in DOMAIN dels : WebhookFindError(d)
  \/ \E d \in DOMAIN dels : WebhookFind(d)
  \/ \E d \in DOMAIN dels : WebhookUpdateError(d)
  \/ \E d \in DOMAIN dels : WebhookUpdatePaid(d)
  \/ \E d \in DOMAIN dels, ok \in BOOLEAN : WebhookTrigger(d, ok)
  \/ \E d \in DOMAIN dels : WebhookUpdateFlag(d)
  \/ \E d \in DOMAIN dels : WebhookUpdateExpired(d)

\* the metadata of the events explored together with booking requests:
\* that of the checkout of the first plain body
PlainMetas ==
  { meta \in Metas : /\ meta.offeringId = "o1"
                     /\ meta.customerEmail = "par1@example.com"
                     /\ meta.studentEmail = "stu1@example.com" }

Tasks(serial, n) ==
  BookingTasks(serial, n, PlainBodies) \/ WebhookTasks(serial, n, PlainMetas)

\* Requests are suspended at their awaits and interleave freely.  A request
\* answered before its first CRM call touches no shared state and so takes
\* no part in any interleaving; those are explored by SpecSeq.
Next == Tasks(FALSE, MaxConcTasks)

Spec == Init /\ [][Next]_vars

\* requests handled one at a time: none starts while another is in flight
NextSeq == Rejects(TRUE, PlainEvents) \/ Tasks(TRUE, MaxTasks)

SpecSeq == Init /\ [][NextSeq]_vars

\* The bodies explored when only booking requests run: one student, any
\* client price, and at most one of offering, parent and parent name other
\* than in the plain bodies.
FormBodies ==
  { body \in Bodies :
      /\ body.studentEmail = "stu1@example.com"
      /\ Cardinality({ k \in {"offeringId", "parentEmail", "parentName"} :
                         \A plain \in PlainBodies : body[k] # plain[k] }) <= 1 }

\* Booking requests alone, interleaving freely.
NextBooking == BookingTasks(FALSE, MaxBookingTasks, FormBodies)

SpecBooking == Init /\ [][NextBooking]_vars

\* Every kind of request with every webhook event, handled one at a time.
NextWide ==
  Reads(TRUE) \/ Rejects(TRUE, Events) \/ Tasks(TRUE, MaxWideTasks)

SpecWide == Init /\ [][NextWide]_vars

\* the one booking request made under redelivery
LiveBodies == { body \in RejectBodies : body.offeringId = "o1" }

\* the processor delivers the completion event of the booking, one delivery
\* at a time, again after each delivery that did not return success
Redeliver ==
  /\ Len(bookings) = 1
  /\ hist[1].completed = 0
  /\ \E meta \in PlainMetas :
       WebhookStart(TRUE, MaxLiveTasks, "valid", "checkout.session.completed",
                    bookings[1].bookingId, meta)

\* a CRM call or the downstream endpoint fails; each eventually succeeds, so
\* none fails in the last delivery explored
CanFail == nTasks < MaxLiveTasks

\* One booking request, then its completion event redelivered until a
\* delivery returns success; no expiry event is delivered.
NextLive ==
  \/ BookingTasks(TRUE, 1, LiveBodies)
  \/ Redeliver
  \/ \E d \in DOMAIN dels : CanFail /\ WebhookFindError(d)
  \/ \E d \in DOMAIN dels : CanFail /\ WebhookUpdateError(d)
  \/ \E d \in DOMAIN dels : CanFail /\ WebhookTrigger(d, FALSE)
  \/ \E d \in DOMAIN dels : WebhookFind(d)
  \/ \E d \in DOMAIN dels : WebhookUpdatePaid(d)
  \/ \E d \in DOMAIN dels : WebhookTrigger(d, TRUE)
  \/ \E d \in DOMAIN dels : WebhookUpdateFlag(d)

\* The runtime resumes every handler whose awaited call has settled and the
\* processor keeps redelivering, so a step that stays possible is taken.
SpecLive == Init /\ [][NextLive]_vars /\ WF_vars(NextLive)

\* the metadata explored when deliveries interleave: that of the checkout
\* of the booking request made, and one that differs from it in every field
HookMetas ==
  PlainMetas \cup { meta \in Metas : /\ meta.offeringId = "o2"
                                     /\ meta.customerEmail = "par2@example.com"
                                     /\ meta.studentEmail = "stu2@example.com" }

\* One booking request, and deliveries of completion and expiry events that
\* interleave freely with each other.
NextHooks ==
  \/ BookingTasks(TRUE, 1, LiveBodies)
  \/ WebhookTasks(FALSE, MaxHookTasks, HookMetas)

SpecHooks == Init /\ [][NextHooks]_vars

----------------------------------------------------------------------------
(* Properties *)

BookingIdx == 1..Len(bookings)

Status(i) == bookings[i].paymentStatus

Flag(i) == parseBookingFromRecord(bookings[i]).webhookTriggered

Completed == "checkout.session.completed"

Expired == "checkout.session.expired"

\* the step being taken is a step of booking request r / of delivery d
MovedReq(r) == r \in DOMAIN reqs /\ (r \notin DOMAIN reqs' \/ reqs'[r] # reqs[r])

MovedDel(d) == d \in DOMAIN dels /\ (d \notin DOMAIN dels' \/ dels'[d] # dels[d])

\* booking records of the pair (student contact, offering)
PairRecords(studentContactId, offeringId) ==
  { i \in BookingIdx : /\ bookings[i].studentContactId = studentContactId
                       /\ bookings[i].workshopOfferingId = offeringId }

\* booking records whose student contact has this email
EmailRecords(email, offeringId) ==
  { i \in BookingIdx : /\ bookings[i].workshopOfferingId = offeringId
                       /\ bookings[i].studentContactId \in 1..Len(contacts)
                       /\ contacts[bookings[i].studentContactId].email = email }

MinOf(S) == CHOOSE x \in S : \A y \in S : x <= y

\* C1: with deliveries handled one after the other and nothing failing, once
\* a completion event for a booking has been answered with success the
\* booking is paid with the flag set, exactly one dispatch was made for it
\* and paymentStatus and the flag were each written once, however many
\* further deliveries of the event follow.
C1_CompletionIdempotent ==
  \A i \in BookingIdx :
    (hist[i].completed >= 1 /\ hist[i].fail = 0 /\ hist[i].crmFail = 0) =>
      /\ Status(i) = "paid"
      /\ Flag(i)
      /\ hist[i].ok + hist[i].noop = 1
      /\ hist[i].paidW = 1
      /\ hist[i].flagW = 1

C1_Witness ==
  \E i \in BookingIdx :
    /\ hist[i].completed = 2 /\ hist[i].fail = 0 /\ hist[i].crmFail = 0
    /\ hist[i].ok = 1
    /\ resp = WebhookOk

\* C2: with deliveries handled one after the other, when a notification for
\* a booking has failed and a later delivery of the completion event was
\* answered with success (no CRM write having thrown), the booking is paid
\* with the flag set, paymentStatus was written once and exactly one
\* notification succeeded.
C2_RetryConverges ==
  \A i \in BookingIdx :
    (hist[i].fail >= 1 /\ hist[i].crmFail = 0 /\ hist[i].completed >= 1) =>
      /\ Status(i) = "paid"
      /\ Flag(i)
      /\ hist[i].paidW = 1
      /\ hist[i].ok = 1
      /\ hist[i].flagW = 1

C2_Witness ==
  \E i \in BookingIdx :
    /\ hist[i].fail = 1 /\ hist[i].crmFail = 0 /\ hist[i].completed = 1
    /\ hist[i].ok = 1 /\ hist[i].paidW = 1
    /\ Flag(i) /\ Status(i) = "paid"

\* C3: a booking whose flag is set has had a successful dispatch (or the
\* no-op of an unconfigured endpoint), and a delivery that is about to write
\* the flag has itself seen its dispatch succeed.
C3_FlagOnlyAfterDispatch ==
  /\ \A i \in BookingIdx : Flag(i) => hist[i].ok + hist[i].noop >= 1
  /\ \A d \in DOMAIN dels : dels[d].pc = "updateFlag" => dels[d].notified

C3_Witness ==
  \E i \in BookingIdx : Flag(i) /\ hist[i].ok = 1 /\ hist[i].fail = 1

\* C4: when, in a completion delivery, the notification fails or an
\* updateBooking call throws, the delivery ends there with 500
\* WEBHOOK_PROCESSING_FAILED and writes nothing, the flag included.
C4_FailureIs500 ==
  [][ \A d \in DOMAIN dels :
        ( /\ MovedDel(d)
          /\ dels[d].type = Completed
          /\ dels[d].pc \in {"updatePaid", "trigger", "updateFlag"}
          /\ LET i == dels[d].booking.id
             IN \/ hist'[i].fail > hist[i].fail
                \/ hist'[i].crmFail > hist[i].crmFail )
        => /\ d \notin DOMAIN dels'
           /\ resp' = WebhookFailed
           /\ bookings' = bookings ]_vars

C4_Witness ==
  /\ resp = WebhookFailed
  /\ \E i \in BookingIdx :
       hist[i].fail >= 1 /\ Status(i) = "paid" /\ ~Flag(i)

\* C5: every change of a booking's payment status is pending->paid or
\* pending->expired.
C5_OnlyPendingLeaves ==
  [][ \A i \in BookingIdx :
        bookings'[i].paymentStatus # bookings[i].paymentStatus
        => /\ bookings[i].paymentStatus = "pending"
           /\ bookings'[i].paymentStatus \in {"paid", "expired"} ]_vars

\* C6: an expiry delivery that reads the booking as paid or expired ends
\* without a CRM write; an expiry delivery writes only after reading
\* pending, and then only paymentStatus 'expired' on that record.
C6_ExpiryOnlyFromPending ==
  [][ \A d \in DOMAIN dels :
        (MovedDel(d) /\ dels[d].type = Expired)
        => IF dels[d].pc = "findBooking"
           THEN /\ bookings' = bookings
                /\ LET E == { i \in BookingIdx :
                               bookings[i].bookingId = dels[d].bookingId }
                   IN (E # {} /\ Status(MinOf(E)) # "pending")
                      => d \notin DOMAIN dels'
           ELSE /\ dels[d].booking.paymentStatus = "pending"
                /\ \/ bookings' = bookings
                   \/ bookings' = [bookings EXCEPT
                        ![dels[d].booking.id].paymentStatus = "expired"] ]_vars

C6_Witness ==
  \E i \in BookingIdx :
    hist[i].expSkipped >= 1 /\ Status(i) = "paid" /\ resp = WebhookOk

C9_OneRecordPerPair ==
  \A i, j \in BookingIdx :
    ( /\ bookings[i].studentContactId = bookings[j].studentContactId
      /\ bookings[i].workshopOfferingId = bookings[j].workshopOfferingId )
    => i = j

C9_Witness ==
  /\ Len(bookings) = 2
  /\ \E i \in BookingIdx : hist[i].issued + hist[i].rejected >= 2

\* C10: a request that is past its duplicate check creates its record
\* whatever the collection holds by then; the create call makes no check of
\* its own, so interleaved requests leave two records for one pair.
C10_CreateUnchecked ==
  [][ \A r \in DOMAIN reqs :
        (MovedReq(r) /\ reqs[r].pc = "createBooking"
           /\ resp'.code # "CREATE_ERROR")
        => /\ Len(bookings') = Len(bookings) + 1
           /\ LET new == bookings'[Len(bookings')]
              IN /\ new.studentContactId = reqs[r].studentContactId
                 /\ new.workshopOfferingId = reqs[r].offeringId
                 /\ new.paymentStatus = "pending" ]_vars

C10_Witness ==
  \E i, j \in BookingIdx :
    /\ i # j
    /\ bookings[i].studentContactId = bookings[j].studentContactId
    /\ bookings[i].workshopOfferingId = bookings[j].workshopOfferingId

OfferingCodes ==
  {"OFFERING_NOT_FOUND", "OFFERING_UNAVAILABLE", "OFFERING_PAST",
   "OFFERING_NO_PRODUCT"}

Duplicate == Resp("booking", 400, "DUPLICATE_BOOKING")

\* the offering record the step just taken was given by the CRM
Fetched == fetchOfferingById(fetchedId)

\* C11: a booking request whose duplicate search returns a booking that is
\* not pending (paid or expired) ends there with DUPLICATE_BOOKING and
\* leaves the booking collection as it was.
C11_ResolvedIsDuplicate ==
  [][ \A r \in DOMAIN reqs :
        ( /\ MovedReq(r)
          /\ reqs[r].pc = "findDuplicate"
          /\ resp'.code # "CREATE_ERROR" )
        => LET E == PairRecords(reqs[r].studentContactId, reqs[r].offeringId)
           IN (E # {} /\ Status(MinOf(E)) # "pending")
              => /\ r \notin DOMAIN reqs'
                 /\ resp' = Duplicate
                 /\ bookings' = bookings ]_vars

C11_Witness ==
  /\ resp = Duplicate
  /\ Len(bookings) = 1
  /\ Status(1) = "expired"
  /\ hist[1].rejected = 1

\* the five checks of the eligibility step in their order, TRUE when passed
EligibilityChecks(offering) ==
  IF offering.id = "none"
  THEN <<FALSE, TRUE, TRUE, TRUE, TRUE>>
  ELSE << TRUE,
          offering.availability # "inactive",
          offering.availability # "full",
          offering.workshopDate >= Today,
          offering.stripePriceId # "" >>

EligibilityCodes ==
  << "OFFERING_NOT_FOUND", "OFFERING_UNAVAILABLE", "OFFERING_UNAVAILABLE",
     "OFFERING_PAST", "OFFERING_NO_PRODUCT" >>

Failing(offering) == { k \in 1..5 : ~EligibilityChecks(offering)[k] }

\* C12: the step that fetches the offering of a booking request answers with
\* the code of the first failing check in the order exists, not inactive,
\* not full, date not past, payment reference present; when all five pass
\* it sends no response and the request goes on to the parent upsert.
C12_FirstFailingCheck ==
  fetchedId # ""
  => IF Failing(Fetched) = {}
     THEN /\ resp = NoResp
          /\ \E r \in DOMAIN reqs : /\ reqs[r].pc = "upsertParent"
                                    /\ reqs[r].offeringId = fetchedId
     ELSE /\ resp.kind = "booking"
          /\ resp.code = EligibilityCodes[MinOf(Failing(Fetched))]

C12_Witness ==
  /\ fetchedId = "oInactivePastNoPrice"
  /\ Failing(Fetched) = {2, 4, 5}
  /\ resp.code = "OFFERING_UNAVAILABLE"

\* C13 as claimed: a request against an offering dated before today is
\* answered OFFERING_PAST whatever the offering's availability.
C13_PastAlwaysPast ==
  (fetchedId # "" /\ Fetched.id # "none" /\ Fetched.workshopDate < Today)
  => resp.code = "OFFERING_PAST"

\* C13: a request against an offering dated before today is answered
\* OFFERING_PAST when the offering is neither inactive nor full, whether or
\* not it has a payment reference, and OFFERING_UNAVAILABLE when it is
\* inactive or full.
C13_PastUnlessUnavailable ==
  (fetchedId # "" /\ Fetched.id # "none" /\ Fetched.workshopDate < Today)
  => resp.code = IF Fetched.availability \in {"inactive", "full"}
                 THEN "OFFERING_UNAVAILABLE"
                 ELSE "OFFERING_PAST"

C13_Witness ==
  /\ fetchedId = "oPastNoPrice"
  /\ Fetched.workshopDate < Today
  /\ resp.code = "OFFERING_PAST"

\* booking requests that the step being taken ends
Ended == DOMAIN reqs \ DOMAIN reqs'

\* C14 as claimed: a booking request that ends in an offering rejection or
\* in DUPLICATE_BOOKING has changed nothing in the CRM and has made no
\* contact upsert and no booking create.
C14_RejectBeforeMutation ==
  [][ resp'.code \in OfferingCodes \cup {"DUPLICATE_BOOKING"}
      => /\ contacts' = contacts
         /\ bookings' = bookings
         /\ \A r \in Ended : /\ reqs[r].parentContactId = 0
                             /\ reqs[r].studentContactId = 0 ]_vars

\* C14: an offering rejection is decided before any mutating CRM call (the
\* request has upserted no contact and created no booking); DUPLICATE_BOOKING
\* is decided after the parent and the student upsert of the request and
\* before any booking create.
C14_RejectBeforeBookingCreate ==
  [][ /\ resp'.code \in OfferingCodes
         => /\ contacts' = contacts
            /\ bookings' = bookings
            /\ reqs' = reqs
      /\ resp'.code = "DUPLICATE_BOOKING"
         => /\ contacts' = contacts
            /\ bookings' = bookings
            /\ \E r \in Ended :
                 /\ Ended = {r}
                 /\ reqs[r].pc = "findDuplicate"
                 /\ ContactIndex(contacts, reqs[r].parentEmail)
                      = reqs[r].parentContactId
                 /\ ContactIndex(contacts, reqs[r].studentEmail)
                      = reqs[r].studentContactId
                 /\ reqs[r].parentContactId # 0
                 /\ reqs[r].studentContactId # 0 ]_vars

C14_Witness ==
  /\ resp = Duplicate
  /\ Len(contacts) = 2
  /\ Len(bookings) = 1
  /\ hist[1].rejected = 1
  /\ Status(1) = "paid"

\* C15: the step that rejects a booking request at the offering check
\* changes no contact, no booking record and no request in flight, and every
\* request that is in flight, on its way to the contact upserts and the
\* booking create, holds an offering that passes the five checks.
C15_RejectedOfferingNoWrite ==
  [][ /\ resp'.code \in OfferingCodes
         => /\ contacts' = contacts
            /\ bookings' = bookings
            /\ reqs' = reqs
            /\ Failing(fetchOfferingById(fetchedId')) # {}
      /\ \A r \in DOMAIN reqs' : Failing(reqs'[r].offering) = {} ]_vars

C15_Witness ==
  /\ resp.code \in OfferingCodes
  /\ fetchedId = "oFull"
  /\ Len(contacts) = 2
  /\ Len(bookings) = 1

\* the step being taken is request r returning from its create call
Creates(r) ==
  /\ MovedReq(r)
  /\ reqs[r].pc = "createBooking"
  /\ resp'.code # "CREATE_ERROR"

\* C16: the record a booking request creates has as price paid the price of
\* the offering the request fetched, and every stored price is the price of
\* the record's offering: no price of a request body is ever stored.
C16_PriceFromOffering ==
  [][ /\ \A r \in DOMAIN reqs :
           Creates(r)
           => /\ Len(bookings') = Len(bookings) + 1
              /\ bookings'[Len(bookings')].pricePaid
                   = Offerings[reqs[r].offeringId].price
      /\ \A i \in 1..Len(bookings') :
           /\ bookings'[i].pricePaid
                = Offerings[bookings'[i].workshopOfferingId].price
           /\ bookings'[i].pricePaid \notin ClientPrices ]_vars

C16_Witness ==
  \E i, j \in BookingIdx :
    /\ bookings[i].workshopOfferingId = "o1" /\ bookings[i].pricePaid = 50
    /\ bookings[j].workshopOfferingId = "o2" /\ bookings[j].pricePaid = 80

\* C17: no step of a booking request or of a webhook delivery changes the
\* price paid of a booking record that exists.
C17_PriceImmutable ==
  [][ \A i \in BookingIdx :
        /\ i <= Len(bookings')
        /\ bookings'[i].pricePaid = bookings[i].pricePaid ]_vars

C17_Witness ==
  \E i \in BookingIdx :
    /\ bookings[i].pricePaid = 50
    /\ Status(i) = "paid" /\ Flag(i)
    /\ hist[i].issued >= 1 /\ hist[i].paidW >= 1 /\ hist[i].flagW >= 1
    /\ hist[i].fail >= 1

\* C18: the record a booking request creates is pending with the flag not
\* set, and carries the requested offering id and the ids of the contacts
\* that the request's own parent and student upserts returned, which are the
\* contacts of the request's parent and student emails.
C18_CreatedRecord ==
  [][ \A r \in DOMAIN reqs :
        Creates(r)
        => /\ Len(bookings') = Len(bookings) + 1
           /\ LET new == bookings'[Len(bookings')]
              IN /\ new.paymentStatus = "pending"
                 /\ ~parseBookingFromRecord(new).webhookTriggered
                 /\ new.workshopOfferingId = reqs[r].offeringId
                 /\ new.parentContactId = reqs[r].parentContactId
                 /\ new.studentContactId = reqs[r].studentContactId
                 /\ new.parentContactId
                      = ContactIndex(contacts, reqs[r].parentEmail)
                 /\ new.studentContactId
                      = ContactIndex(contacts, reqs[r].studentEmail)
                 /\ new.parentContactId # 0
                 /\ new.studentContactId # 0 ]_vars

C18_Witness ==
  \E i, j \in BookingIdx :
    /\ bookings[i].parentContactId # bookings[j].parentContactId
    /\ bookings[i].studentContactId = bookings[j].studentContactId
    /\ contacts[bookings[j].parentContactId].email = "par2@example.com"
    /\ Status(i) = "pending" /\ Status(j) = "pending"

C20_FirstNameKept ==
  [][ /\ \A i, j \in 1..Len(contacts') :
           contacts'[i].email = contacts'[j].email => i = j
      /\ \A i \in 1..Len(contacts) :
           contacts[i].email \in ParentEmails
           => /\ contacts'[i].name = contacts[i].name
              /\ contacts'[i].customFields = contacts[i].customFields
              /\ contacts[i].tags \subseteq contacts'[i].tags ]_vars

\* the step being taken received a webhook request
Received == event' # NoEvent

\* the step being taken neither started a delivery (whose first call reads
\* the booking), nor wrote a record, nor counted a dispatch
NotProcessed == UNCHANGED <<contacts, bookings, dels, hist>>

\* C21: a webhook request whose signature header is missing or was not made
\* with the webhook secret is answered 400 with WEBHOOK_SIGNATURE_MISSING or
\* WEBHOOK_SIGNATURE_INVALID by the step that receives it, and that step
\* starts no delivery, writes no record and counts no dispatch, whatever type
\* and booking id the request carries; every delivery in flight was signed.
C21_BadSignatureRejected ==
  [][ /\ (Received /\ event'.signature # "valid")
         => /\ resp'.status = 400
            /\ resp'.code = IF event'.signature = ""
                            THEN "WEBHOOK_SIGNATURE_MISSING"
                            ELSE "WEBHOOK_SIGNATURE_INVALID"
            /\ NotProcessed
      /\ \A d \in DOMAIN dels' : dels'[d].signature = "valid" ]_vars

C21_Witness ==
  /\ event.signature = "forged"
  /\ event.type = Completed
  /\ resp.code = "WEBHOOK_SIGNATURE_INVALID"
  /\ \E i \in BookingIdx : /\ bookings[i].bookingId = event.bookingId
                           /\ Status(i) = "pending"

\* C22: a correctly signed event whose type is neither completion nor expiry
\* is answered with success by the step that receives it, and that step
\* starts no delivery, writes no record and counts no dispatch.
C22_UnhandledTypeIgnored ==
  [][ (/\ Received
       /\ event'.signature = "valid"
       /\ event'.type \notin {Completed, Expired})
      => /\ resp' = WebhookOk
         /\ NotProcessed ]_vars

C22_Witness ==
  /\ event.signature = "valid"
  /\ event.type = "charge.refunded"
  /\ resp = WebhookOk
  /\ \E i \in BookingIdx : /\ bookings[i].bookingId = event.bookingId
                           /\ Status(i) = "pending"

\* the delivery carries a booking id that no booking record has
Unmatched(d) ==
  \A i \in BookingIdx : bookings[i].bookingId # dels[d].bookingId

\* C23: a signed completion or expiry event without a booking id is answered
\* with success by the step that receives it, which starts no delivery,
\* writes nothing and counts no dispatch; a delivery whose booking id matches
\* no record ends at its lookup with success, and that step writes no record
\* and counts no dispatch.
C23_MissingBookingStops ==
  [][ /\ (/\ Received
          /\ event'.signature = "valid"
          /\ event'.type \in {Completed, Expired}
          /\ event'.bookingId = NoBookingId)
         => /\ resp' = WebhookOk
            /\ NotProcessed
      /\ \A d \in DOMAIN dels :
           (/\ MovedDel(d)
            /\ dels[d].pc = "findBooking"
            /\ Unmatched(d)
            /\ resp'.status # 500)
           => /\ resp' = WebhookOk
              /\ d \notin DOMAIN dels'
              /\ UNCHANGED <<contacts, bookings, hist>> ]_vars

C23_Witness ==
  /\ resp = WebhookOk
  /\ dels = <<>>
  /\ nTasks = 2
  /\ Len(bookings) = 1
  /\ Status(1) = "pending"
  /\ hist[1].expSkipped = 0
  /\ event = NoEvent

\* C24: a step that moves a booking record to `paid` also stores on the
\* record the currency and the payment reference the event carried.
C24_PaidStoresReference ==
  [][ \A i \in BookingIdx :
        (Status(i) # "paid" /\ bookings'[i].paymentStatus = "paid")
        => /\ bookings'[i].currency = "gbp"
           /\ bookings'[i].paymentReference = "pi_1" ]_vars

\* C25: a step that changes a booking record's webhook-processed flag leaves
\* its payment status as it was, a step that changes its payment status
\* leaves the flag as it was, and no step changes a record's identifiers or
\* price.
C25_PartialUpdate ==
  [][ \A i \in BookingIdx :
        /\ bookings'[i].webhookTriggered # bookings[i].webhookTriggered
           => bookings'[i].paymentStatus = bookings[i].paymentStatus
        /\ bookings'[i].paymentStatus # bookings[i].paymentStatus
           => bookings'[i].webhookTriggered = bookings[i].webhookTriggered
        /\ \A f \in {"id", "bookingId", "parentContactId", "studentContactId",
                     "workshopOfferingId", "pricePaid"} :
             bookings'[i][f] = bookings[i][f] ]_vars

C25_Witness ==
  \E i \in BookingIdx :
    /\ Status(i) = "paid"
    /\ Flag(i)
    /\ hist[i].paidW = 1
    /\ hist[i].flagW = 1
    /\ bookings[i].pricePaid = 50
    /\ bookings[i].bookingId = BookingIdBase + 1

\* C26: a listing answered with success returns exactly the offerings of the
\* requested year group that are neither full nor inactive and are dated
\* today or later.
C26_ListingExcludes ==
  [][ (query' \in {"gcse", "alevel"} /\ resp'.status = 200)
      => resp'.offerings =
           { id \in DOMAIN Offerings :
               /\ Offerings[id].yearGroup = query'
               /\ Offerings[id].availability \notin {"full", "inactive"}
               /\ Offerings[id].workshopDate >= Today } ]_vars

\* the step being taken ends a booking request on a failed CRM read: the
\* offering fetch (the request is answered 500 before it has made any other
\* call, and not by an offering check), or the duplicate search of request r
ReadFailed ==
  /\ resp'.kind = "booking"
  /\ resp'.status = 500
  /\ \/ reqs' = reqs /\ resp'.code \notin OfferingCodes
     \/ \E r \in Ended : reqs[r].pc = "findDuplicate"

\* C27 as stated: a booking request ended by a failed CRM read answers
\* FETCH_ERROR.
C27_ReadFailureIsFetchError ==
  [][ ReadFailed => resp'.code = "FETCH_ERROR" ]_vars

\* C27: a booking request ended by a failed CRM read (the offering fetch
\* failing other than with not-found, or the duplicate search failing)
\* answers CREATE_ERROR with status 500, and the failing step writes nothing.
C27_ReadFailureIsCreateError ==
  [][ ReadFailed => /\ resp' = CreateError
                    /\ UNCHANGED <<contacts, bookings, hist>> ]_vars

C27_Witness ==
  /\ resp = CreateError
  /\ nTasks = 0
  /\ contacts = <<>>

\* the awaits of the booking handler that write to the CRM
WriteCalls == {"upsertParent", "upsertStudent", "createBooking"}

\* C28: a booking request ended with status 500 at the parent upsert, the
\* student upsert or the booking create answers CREATE_ERROR, and that step
\* writes nothing; a request is past the parent upsert only with the parent
\* contact it got from it, past the student upsert only with the student
\* contact, and a booking record is written only by a request that ends
\* with success at the booking create.
C28_WriteFailureStops ==
  [][ /\ \A r \in Ended :
           (reqs[r].pc \in WriteCalls /\ resp'.status = 500)
           => /\ resp' = CreateError
              /\ UNCHANGED <<contacts, bookings, hist>>
      /\ \A r \in DOMAIN reqs' :
           /\ reqs'[r].pc # "upsertParent"
              => /\ reqs'[r].parentContactId # 0
                 /\ reqs'[r].parentContactId
                      = ContactIndex(contacts', reqs'[r].parentEmail)
           /\ reqs'[r].pc \in {"findDuplicate", "createBooking"}
              => /\ reqs'[r].studentContactId # 0
                 /\ reqs'[r].studentContactId
                      = ContactIndex(contacts', reqs'[r].studentEmail)
      /\ bookings' # bookings
         => \E r \in Ended : /\ reqs[r].pc = "createBooking"
                             /\ resp'.status = 200 ]_vars

C28_Witness ==
  /\ resp = CreateError
  /\ Len(contacts) = 1
  /\ contacts[1].email \in ParentEmails
  /\ bookings = <<>>
  /\ reqs = <<>>
  /\ nTasks = 1

\* C30: when no downstream endpoint is configured, no outbound notification
\* is ever attempted; the dispatch step of a delivery returns and goes on to
\* the flag write without touching the booking; and a completion delivery
\* that found a booking to process ends either on a failed CRM update (500)
\* or with success and the booking `paid` with its flag set.
C30_NoEndpointIsSuccess ==
  [][ ~config.bookingWebhookUrl
      => /\ \A i \in 1..Len(hist') : hist'[i].ok = 0 /\ hist'[i].fail = 0
         /\ \A d \in DOMAIN dels :
              (MovedDel(d) /\ dels[d].pc = "trigger")
              => /\ d \in DOMAIN dels'
                 /\ dels'[d].pc = "updateFlag"
                 /\ resp' = NoResp
                 /\ bookings' = bookings
         /\ \A d \in DOMAIN dels \ DOMAIN dels' :
              (dels[d].type = Completed /\ dels[d].pc # "findBooking")
              => \/ /\ resp' = WebhookFailed
                    /\ dels[d].pc \in {"updatePaid", "updateFlag"}
                    /\ bookings' = bookings
                 \/ /\ resp' = WebhookOk
                    /\ bookings'[dels[d].booking.id].paymentStatus = "paid"
                    /\ bookings'[dels[d].booking.id].webhookTriggered = "true"
    ]_vars

C30_Witness ==
  /\ ~config.bookingWebhookUrl
  /\ resp = WebhookOk
  /\ \E i \in BookingIdx :
       /\ Status(i) = "paid"
       /\ Flag(i)
       /\ hist[i].noop = 1
       /\ hist[i].paidW = 1
       /\ hist[i].crmFail = 0

\* C29: once the booking exists, with its completion event redelivered
\* until a delivery returns success, CRM calls and the notification
\* eventually succeeding, and no expiry event, the booking eventually is
\* `paid` with the webhook-processed flag set, and stays so.
C29_RedeliveryConverges ==
  (Len(bookings) = 1) ~> [](Len(bookings) = 1 /\ Status(1) = "paid" /\ Flag(1))

C29_Witness ==
  /\ Len(bookings) = 1
  /\ Status(1) = "paid"
  /\ Flag(1)
  /\ hist[1].fail = 1
  /\ hist[1].crmFail = 1
  /\ hist[1].completed = 1
  /\ dels = <<>>

\* C31: a completion delivery that found a booking not fully processed goes
\* on to the dispatch, directly when it read the booking as paid and after
\* its paid write otherwise; the notification it posts takes offering,
\* parent and student from the metadata of its event and only the booking id
\* and price from the record it read; and no step of a delivery fetches an
\* offering or changes a contact.
C31_DispatchFromMetadata ==
  [][ \A d \in DOMAIN dels :
        (MovedDel(d) /\ dels[d].type = Completed)
        => /\ fetchedId' = ""
           /\ contacts' = contacts
           /\ (dels[d].pc = "findBooking" /\ d \in DOMAIN dels')
              => dels'[d].pc = IF dels'[d].booking.paymentStatus = "paid"
                               THEN "trigger" ELSE "updatePaid"
           /\ (dels[d].pc = "updatePaid" /\ d \in DOMAIN dels')
              => dels'[d].pc = "trigger"
           /\ (dels[d].pc = "trigger" /\ config.bookingWebhookUrl)
              => /\ sent'.bookingId = dels[d].booking.bookingId
                 /\ sent'.pricePaid = dels[d].booking.pricePaid
                 /\ sent'.offeringId = dels[d].meta.offeringId
                 /\ sent'.parentEmail = dels[d].meta.customerEmail
                 /\ sent'.studentEmail = dels[d].meta.studentEmail ]_vars

C31_Witness ==
  \E d \in DOMAIN dels :
    /\ dels[d].pc = "updateFlag"
    /\ dels[d].booking.paymentStatus = "paid"
    /\ sent.bookingId = bookings[1].bookingId
    /\ sent.offeringId = "o2"
    /\ bookings[1].workshopOfferingId = "o1"
    /\ sent.studentEmail = "stu2@example.com"
    /\ contacts[bookings[1].studentContactId].email = "stu1@example.com"

\* C32: with the completion event redelivered one delivery at a time, a
\* delivery whose flag write fails after its notification was accepted ends
\* with 500 and leaves the booking paid with the flag unset; a later
\* delivery that reads the booking so goes to the dispatch again and, when
\* the notification is accepted again, on to the flag write; and a booking
\* has at most one accepted notification more than failed CRM updates.
C32_FlagFailureRedispatches ==
  [][ /\ \A d \in DOMAIN dels :
           MovedDel(d)
           => /\ (dels[d].pc = "updateFlag" /\ resp'.status = 500)
                 => /\ resp' = WebhookFailed
                    /\ d \notin DOMAIN dels'
                    /\ bookings' = bookings
                    /\ Status(dels[d].booking.id) = "paid"
                    /\ ~Flag(dels[d].booking.id)
              /\ (/\ dels[d].pc = "findBooking"
                  /\ resp'.status # 500
                  /\ \E i \in BookingIdx : /\ bookings[i].bookingId = dels[d].bookingId
                                           /\ Status(i) = "paid"
                                           /\ ~Flag(i))
                 => /\ d \in DOMAIN dels'
                    /\ dels'[d].pc = "trigger"
              /\ (dels[d].pc = "trigger" /\ resp'.status # 500)
                 => /\ d \in DOMAIN dels'
                    /\ dels'[d].pc = "updateFlag"
      /\ \A i \in 1..Len(hist') : hist'[i].ok <= hist'[i].crmFail + 1 ]_vars

C32_Witness ==
  /\ Len(bookings) = 1
  /\ Status(1) = "paid"
  /\ Flag(1)
  /\ hist[1].ok = 2
  /\ hist[1].fail = 0
  /\ hist[1].crmFail = 1
  /\ hist[1].paidW = 1

\* C33: under any interleaving of deliveries, a booking record whose payment
\* status is `paid` is never written `expired`.
C33_PaidNeverExpired ==
  [][ \A i \in BookingIdx :
        Status(i) = "paid" => bookings'[i].paymentStatus # "expired" ]_vars

\* C34: in every reachable state a booking whose webhook-processed flag is
\* set has payment status `paid`.
C34_FlagImpliesPaid ==
  \A i \in BookingIdx : Flag(i) => Status(i) = "paid"

\* C35: however the deliveries of a booking's completion event interleave,
\* as long as no CRM update has failed and the booking is not expired, at
\* most one notification has been accepted for it.
C35_ConcurrentDispatchOnce ==
  \A i \in BookingIdx :
    (hist[i].crmFail = 0 /\ Status(i) # "expired") => hist[i].ok <= 1

\* dispatches made for booking record i so far: accepted, failed, and the
\* no-ops of an unconfigured endpoint
Dispatches(h, i) == h[i].ok + h[i].fail + h[i].noop

\* C36: a delivery comes to its dispatch only from its lookup, having read
\* the booking as paid, or from its own paid write, which succeeded; only a
\* delivery at its dispatch posts a notification or counts a dispatch; and a
\* delivery whose paid write fails ends there with 500 and dispatches
\* nothing.
C36_DispatchOnlyWhenPaid ==
  [][ /\ \A d \in DOMAIN dels :
           MovedDel(d)
           => /\ (/\ d \in DOMAIN dels'
                  /\ dels'[d].pc = "trigger")
                 => \/ /\ dels[d].pc = "findBooking"
                       /\ dels'[d].booking.paymentStatus = "paid"
                    \/ /\ dels[d].pc = "updatePaid"
                       /\ bookings'[dels[d].booking.id].paymentStatus = "paid"
                       /\ hist'[dels[d].booking.id].paidW
                            = hist[dels[d].booking.id].paidW + 1
              /\ (dels[d].pc = "updatePaid" /\ resp'.status = 500)
                 => /\ d \notin DOMAIN dels'
                    /\ resp' = WebhookFailed
                    /\ bookings' = bookings
              /\ dels[d].pc # "trigger"
                 => /\ sent' = NoPayload
                    /\ \A i \in 1..Len(hist) :
                         Dispatches(hist', i) = Dispatches(hist, i)
      /\ (\A d \in DOMAIN dels : ~MovedDel(d))
         => /\ sent' = NoPayload
            /\ \A i \in 1..Len(hist) :
                 Dispatches(hist', i) = Dispatches(hist, i) ]_vars

C36_Witness ==
  \E d \in DOMAIN dels :
    /\ dels[d].pc = "updateFlag"
    /\ dels[d].booking.paymentStatus = "pending"
    /\ sent.bookingId = dels[d].booking.bookingId
    /\ hist[dels[d].booking.id].crmFail = 1
    /\ hist[dels[d].booking.id].paidW = 1
    /\ Dispatches(hist, dels[d].booking.id) = 1

\* C37: the success response of a request that reuses an existing booking
\* carries the parent and student contact ids stored on the reused record.
C37_ReuseReturnsRecordContacts ==
  [][ \A r \in Ended :
        (/\ reqs[r].pc = "findDuplicate"
         /\ resp'.status = 200)
        => /\ resp'.recordId \in BookingIdx
           /\ resp'.parentContactId = bookings[resp'.recordId].parentContactId
           /\ resp'.studentContactId = bookings[resp'.recordId].studentContactId
    ]_vars

\* C38: a step of the booking handler leaves every existing booking record as
\* it was and adds at most one record; a step of the webhook handler leaves the
\* number of booking records and the contacts as they were; no record is ever
\* removed, and on an existing record only the payment status and the
\* webhook-processed flag ever change.
C38_HandlersKeepTheirFrame ==
  [][ /\ Len(bookings') \in {Len(bookings), Len(bookings) + 1}
      /\ \A i \in BookingIdx :
           [ bookings'[i] EXCEPT !.paymentStatus = bookings[i].paymentStatus,
                                 !.webhookTriggered = bookings[i].webhookTriggered ]
             = bookings[i]
      /\ (dels' = dels) => \A i \in BookingIdx : bookings'[i] = bookings[i]
      /\ (reqs' = reqs) => /\ Len(bookings') = Len(bookings)
                           /\ contacts' = contacts
    ]_vars

C38_Witness ==
  /\ Len(bookings) = 2
  /\ Status(1) = "paid"
  /\ Flag(1)
  /\ Status(2) = "pending"
  /\ bookings[2].webhookTriggered = ""
  /\ Len(contacts) = 3
  /\ reqs = <<>>
  /\ dels = <<>>

\* C39: no step turns the payment status of an existing booking back to
\* pending, and, requests being handled one at a time, a request that reaches
\* the duplicate check for a (student, offering) pair whose booking has already
\* caused a DUPLICATE_BOOKING rejection, and whose duplicate search is
\* answered by the CRM, ends there with DUPLICATE_BOOKING.
C39_RejectionIsPermanent ==
  [][ /\ \A i \in BookingIdx :
           Status(i) # "pending" => bookings'[i].paymentStatus # "pending"
      /\ \A r \in DOMAIN reqs :
           (/\ MovedReq(r)
            /\ reqs[r].pc = "findDuplicate"
            /\ resp'.code # "CREATE_ERROR"
            /\ \E i \in BookingIdx :
                 /\ bookings[i].studentContactId = reqs[r].studentContactId
                 /\ bookings[i].workshopOfferingId = reqs[r].offeringId
                 /\ hist[i].rejected >= 1)
           => /\ r \in Ended
              /\ resp' = Duplicate
    ]_vars

C39_Witness ==
  \E i \in BookingIdx :
    /\ Status(i) = "expired"
    /\ hist[i].rejected = 2
    /\ resp = Duplicate

====
